---- MODULE Spec2Model ----
(***************************************************************************)
(* Dynamic line rating and N-1 contingency analysis.                       *)
(*                                                                         *)
(* Units of the model (the program computes in floating point):            *)
(*   capacities, flows and loads are integers in kVA / kW,                 *)
(*   currents are integers in A, resistances in micro-ohm per foot,        *)
(*   heat terms in W per foot, diameters in thousandths of an inch,        *)
(*   a load fraction is an exact fraction [num, den].                      *)
(***************************************************************************)
EXTENDS Integers, Sequences, FiniteSets, TLC

\* ------------------------------------------------------------------ bounds
\* Largest number of lines of a network.
MaxLines == 2
\* The flow solver returns per-line flows of 0 .. MaxFlowLevel steps of 31.5 MVA.
MaxFlowLevel == 3

\* Load fractions handed to the display classification: 0 .. MaxPermille
\* thousandths.
MaxPermille == 1200

\* Temperature ranges of a sensitivity sweep span up to MaxSpan degrees.
MaxSpan == 2

\* A sensitivity table handed to the ranking has up to MaxRankLines lines.
MaxRankLines == 2

\* The loop that generates the samples of a sweep is followed for up to
\* MaxSamples iterations; a list of that length stands for a loop that does
\* not end.
MaxSamples == 24

\* ------------------------------------------------------------- Python values
\* Python's None as a field value or an exception slot. A lookup that returns
\* a row or None returns <<row>> or <<>>; a column a table does not have is
\* a field its rows do not have.
None == "None"

Max(a, b) == IF a >= b THEN a ELSE b

Abs(a) == IF a >= 0 THEN a ELSE 0 - a

RECURSIVE ISqrtStep(_, _, _)
\* Largest r in lo..hi with r*r <= n (bisection).
ISqrtStep(n, lo, hi) ==
    IF lo >= hi THEN lo
    ELSE LET mid == (lo + hi + 1) \div 2
         IN  IF mid * mid <= n THEN ISqrtStep(n, mid, hi)
             ELSE ISqrtStep(n, lo, mid - 1)

\* math.sqrt, rounded down to an integer.
ISqrt(n) == ISqrtStep(n, 0, 4000)

\* The items of a sequence.
Range(s) == {s[i] : i \in 1..Len(s)}

RECURSIVE FlatMap(_, _)
\* Concatenation of F(s[1]), F(s[2]), ...
FlatMap(F(_), s) == IF s = <<>> THEN <<>> ELSE F(Head(s)) \o FlatMap(F, Tail(s))

\* ---------------------------------------------------------- reference tables
ORIOLE == "336.4 ACSR 30/7 ORIOLE"
DRAKE == "795 ACSR 26/7 DRAKE"

\* Conductors.library: one row per conductor (radius in 1/1000 in, resistance
\* in micro-ohm per mile at 25 C and 50 C).
Library ==
    << [ConductorName |-> ORIOLE, CDRAD_in |-> 370, RES_25C |-> 270000, RES_50C |-> 297000],
       [ConductorName |-> DRAKE, CDRAD_in |-> 554, RES_25C |-> 117000, RES_50C |-> 128000] >>

\* Conductors.ratings: one row per (conductor, MOT), rated MVA per voltage
\* class, here in kVA.
RatingsTable ==
    << [ConductorName |-> ORIOLE, MOT |-> 75, RatingAmps |-> 531,
        RatingMVA_69 |-> 63000, RatingMVA_138 |-> 127000],
       [ConductorName |-> DRAKE, MOT |-> 75, RatingAmps |-> 902,
        RatingMVA_69 |-> 107000, RatingMVA_138 |-> 215000] >>

\* The first row of a table that satisfies Match: <<row>>, or <<>> for None.
FirstRow(table, Match(_)) ==
    LET hits == {i \in 1..Len(table) : Match(table[i])}
    IN  IF hits = {} THEN <<>>
        ELSE <<table[CHOOSE i \in hits : \A j \in hits : i <= j]>>

find_library(name) ==
    LET Match(row) == row.ConductorName = name
    IN  FirstRow(Library, Match)

find_rating(name, mot) ==
    LET Match(row) == row.ConductorName = name /\ row.MOT = mot
    IN  FirstRow(RatingsTable, Match)

\* Network.buses: nominal voltage (kV) and coordinates of every bus.
BusTable ==
    << [name |-> 1, v_nom |-> 69, x |-> 1, y |-> 1],
       [name |-> 2, v_nom |-> 69, x |-> 3, y |-> 1],
       [name |-> 3, v_nom |-> 138, x |-> 0, y |-> 2],
       [name |-> 4, v_nom |-> 138, x |-> 0, y |-> 5],
       [name |-> 5, v_nom |-> 115, x |-> 0, y |-> 0],
       [name |-> 6, v_nom |-> 115, x |-> 2, y |-> 2] >>

find_bus(name) ==
    LET Match(row) == row.name = name
    IN  FirstRow(BusTable, Match)

\* ------------------------------------------------------ thermal rating model
\* Fields ieee738.ConductorParams needs before a rating can be computed.
RequiredParams ==
    {"Ta", "WindVelocity", "SunTime", "Direction", "Tc", "Diameter",
     "TLo", "RLo", "THi", "RHi"}

\* A merge in which the stored partials win and are updated in place.
PartialApplyBaselineWins(partials, remainder) ==
    LET full == partials @@ remainder
    IN  [ok |-> RequiredParams \subseteq DOMAIN full, params |-> full,
         partials |-> full]

\* PartialConductorParams.apply: the stored partials merged with the per-call
\* remainder, the remainder winning; ieee738.ConductorParams fails when a
\* required field is unresolved.  partials is self.partials after the call.
PartialApply(partials, remainder) ==
    LET full == remainder @@ partials
    IN  [ok |-> RequiredParams \subseteq DOMAIN full, params |-> full,
         partials |-> partials]

\* R(Tc): linear interpolation between (TLo, RLo) and (THi, RHi).
Resistance(p) ==
    p.RLo + ((p.RHi - p.RLo) * (p.Tc - p.TLo)) \div (p.THi - p.TLo)

\* Radiative loss: grows with diameter and the conductor-ambient difference.
RadiativeLoss(p) == (p.Diameter * (p.Tc - p.Ta)) \div 5000

\* Convective loss: the larger of forced (wind) and natural convection.  The
\* forced coefficient is the one under which the reference scenario (ORIOLE,
\* Tc 75, ambient 25, wind 2 ft/s, noon) rates at about 531 A.
ConvectiveLoss(p) ==
    LET natural == (p.Diameter * (p.Tc - p.Ta)) \div 10000
        forced == (3 * p.WindVelocity * p.Diameter * (p.Tc - p.Ta)) \div 16000
    IN  Max(natural, forced)

\* Solar gain: none at night, by day proportional to the diameter, with the
\* line's orientation deciding the incident flux.
SolarGain(p) ==
    IF p.SunTime <= 6 \/ p.SunTime >= 18 THEN 0
    ELSE (p.Diameter * (IF p.Direction = "EastWest" THEN 6 ELSE 5)) \div 1000

\* Conductor.steady_state_thermal_rating: I = sqrt(max(0, qc + qr - qs) / R).
SteadyStateThermalRating(p) ==
    ISqrt((Max(0, ConvectiveLoss(p) + RadiativeLoss(p) - SolarGain(p)) * 1000000)
          \div Resistance(p))

\* ------------------------------------------------------------------ Network
\* Line orientation as __adjust_s_nom computes it from the terminal buses.
LineDirection(bus0, bus1) ==
    LET x_diff == Abs(bus0.x - bus0.y)
        y_diff == Abs(bus0.y - bus1.y)
    IN  IF x_diff > y_diff THEN "EastWest" ELSE "NorthSouth"

\* The capacity without the three-phase factor sqrt(3).
IkvSinglePhase(I, v_nom) == (1000 * I * v_nom) \div 1000

\* Ikv = 3**0.5 * I * (v_nom * 1000) / 1e6 (MVA), here in kVA.
Ikv(I, v_nom) == (1732 * I * v_nom) \div 1000

\* A line row that keeps its static s_nom when the rating is installed.
InstallRatingKeepsSNom(line, I, v_nom, qs, qc, qr) ==
    [v_nom |-> v_nom, Qs |-> qs, Qc |-> qc, Qr |-> qr] @@ line

\* The line row __adjust_s_nom returns: the capacity from the rated current I
\* installed as s_nom, the voltage and the heat terms added as columns.
InstallRating(line, I, v_nom, qs, qc, qr) ==
    [s_nom |-> Ikv(I, v_nom), v_nom |-> v_nom, Qs |-> qs, Qc |-> qc, Qr |-> qr] @@ line

\* Network.__adjust_s_nom on one line row: [ok, line] or [ok |-> FALSE, error].
AdjustSNom(atmos_params, line) ==
    LET found_conductor == find_library(line.conductor)
        found_bus0 == find_bus(line.bus0)
        found_bus1 == find_bus(line.bus1)
    IN  IF found_bus0 = <<>> \/ found_bus1 = <<>> \/ found_conductor = <<>>
        THEN [ok |-> FALSE, error |-> "TypeError"]
        ELSE IF found_bus0[1].v_nom # found_bus1[1].v_nom
        THEN [ok |-> FALSE, error |-> "AssertionError"]
        ELSE
        LET conductor == found_conductor[1]
            bus0 == found_bus0[1]
            bus1 == found_bus1[1]
            resolved == PartialApply(atmos_params,
                        [Direction |-> LineDirection(bus0, bus1),
                         Tc |-> line.MOT,
                         Diameter |-> conductor.CDRAD_in * 2,
                         TLo |-> 25,
                         RLo |-> conductor.RES_25C \div 5280,
                         THi |-> 50,
                         RHi |-> conductor.RES_50C \div 5280])
            params == resolved.params
        IN  IF ~resolved.ok
            THEN [ok |-> FALSE, error |-> "ConfigurationError"]
            ELSE [ok |-> TRUE,
                  line |-> InstallRating(line, SteadyStateThermalRating(params),
                                         bus0.v_nom, SolarGain(params),
                                         ConvectiveLoss(params), RadiativeLoss(params))]

\* The rated capacity __calculate_stress picks from a ratings row.
RatedCapacity(ratings, v_nom) ==
    IF v_nom = 69 THEN ratings.RatingMVA_69 ELSE ratings.RatingMVA_138

\* at_risk with the comparison turned round.
AtRiskBelowRated(s_nom, cap) == s_nom < cap

\* at_risk = s_nom > cap.
AtRisk(s_nom, cap) == s_nom > cap

\* overcapacity and load fraction taken against the dynamic capacity.
OvercapAgainstActual(load_a, cap, s_nom) ==
    [overcap |-> load_a > s_nom, load |-> [num |-> load_a, den |-> s_nom]]

\* overcap = load_a > cap and load = load_a / cap (s_nom plays no part).
Overcap(load_a, cap, s_nom) ==
    [overcap |-> load_a > cap, load |-> [num |-> load_a, den |-> cap]]

\* Network.__calculate_stress on one line row, p0 the solved flows.
CalculateStress(line, p0) ==
    LET found_ratings == find_rating(line.conductor, line.MOT)
    IN  IF found_ratings = <<>>
        THEN [ok |-> FALSE, error |-> "TypeError"]
        ELSE
        LET ratings == found_ratings[1]
            s_nom == line.s_nom
            load_a == Abs(p0[line.name])
            cap == RatedCapacity(ratings, line.v_nom)
        IN  [ok |-> TRUE,
             result |-> [branch_name |-> line.branch_name,
                         load_a |-> load_a,
                         rated_capacity |-> cap,
                         actual_capacity |-> s_nom,
                         at_risk |-> AtRisk(s_nom, cap),
                         overcapacity |-> Overcap(load_a, cap, s_nom).overcap,
                         load_percentage |-> Overcap(load_a, cap, s_nom).load]]

\* The config module: MINIMUM_LOAD_TIME and MAXIMUM_LOAD_TIME (module globals,
\* read whenever a load is adjusted).
VARIABLE config

\* config.MINIMUM_LOAD_TIME, config.MAXIMUM_LOAD_TIME (hours) and
\* config.LOAD_VARIANCE (in thousandths).
DefaultConfig == [MINIMUM_LOAD_TIME |-> 4, MAXIMUM_LOAD_TIME |-> 16]

MINIMUM_LOAD_TIME == config.MINIMUM_LOAD_TIME
MAXIMUM_LOAD_TIME == config.MAXIMUM_LOAD_TIME
LOAD_VARIANCE == 100

\* 1000 * sin(2 pi k / 24) for k = 0 .. 23.
SinMilli ==
    << 0, 259, 500, 707, 866, 966, 1000, 966, 866, 707, 500, 259,
       0, -259, -500, -707, -866, -966, -1000, -966, -866, -707, -500, -259 >>

\* Network.__adjust_load on one load row.
AdjustLoad(load, hour_of_day) ==
    IF ~(MINIMUM_LOAD_TIME < MAXIMUM_LOAD_TIME)
    THEN [ok |-> FALSE, error |-> "AssertionError"]
    ELSE LET offset == MAXIMUM_LOAD_TIME - MINIMUM_LOAD_TIME
             sin == SinMilli[((hour_of_day - offset) % 24) + 1]
         IN  [ok |-> TRUE,
              load |-> [load EXCEPT
                  !.p_set = load.p_set
                            + (((load.p_set * sin) \div 1000) * LOAD_VARIANCE) \div 1000]]

\* DataFrame.apply(f, axis=1): f on every row; the first failure is raised and
\* no frame is produced.
ApplyRows(F(_), rows, field) ==
    LET outs == [i \in 1..Len(rows) |-> F(rows[i])]
        bad == {i \in 1..Len(rows) : ~outs[i].ok}
    IN  IF bad = {}
        THEN [ok |-> TRUE, rows |-> [i \in 1..Len(rows) |-> outs[i][field]]]
        ELSE [ok |-> FALSE, error |-> outs[CHOOSE i \in bad : \A j \in bad : i <= j].error]

\* The load adjustment of apply_atmospherics: hour_of_day is kwargs["SunTime"],
\* looked up when the first row is adjusted.
AdjustLoads(loads, kwargs) ==
    LET F(load) == IF "SunTime" \in DOMAIN kwargs
                   THEN AdjustLoad(load, kwargs.SunTime)
                   ELSE [ok |-> FALSE, error |-> "KeyError"]
    IN  ApplyRows(F, loads, "load")

AdjustLines(lines, atmos_params) ==
    LET F(line) == AdjustSNom(atmos_params, line)
    IN  ApplyRows(F, lines, "line")

StressLines(lines, p0) ==
    LET F(line) == CalculateStress(line, p0)
    IN  ApplyRows(F, lines, "result")

\* The load setpoints of the last evaluation.
AdjustedLoads(net) == net.subnet_loads

\* self.loads: the loads table as __create_subnet left it (no evaluation
\* writes to it: the adjusted table goes to self.subnet.loads).
BaselineLoads(net) == net.loads

\* Network.apply_atmospherics(**kwargs) on network record net, the flow solver
\* answering `solved` ([converged, p0], p0 the per-line flows): the network
\* afterwards, and the exception raised (None if it returned net.results).
apply_atmospherics(net, kwargs, solved) ==
    LET loads == AdjustLoads(BaselineLoads(net), kwargs)
    IN  IF ~loads.ok THEN [net |-> net, raised |-> loads.error]
        ELSE
        LET n1 == [net EXCEPT !.subnet_loads = loads.rows]
            lines == AdjustLines(n1.subnet_lines, kwargs)
        IN  IF ~lines.ok THEN [net |-> n1, raised |-> lines.error]
            ELSE
            LET n2 == [n1 EXCEPT !.subnet_lines = lines.rows]
            IN  IF ~solved.converged THEN [net |-> n2, raised |-> "ConvergenceFailure"]
                ELSE
                LET n3 == [n2 EXCEPT !.p0 = solved.p0]
                    stress == StressLines(n3.subnet_lines, n3.p0)
                IN  IF ~stress.ok THEN [net |-> n3, raised |-> stress.error]
                    ELSE [net |-> [n3 EXCEPT !.results = stress.rows],
                          raised |-> None]

\* ---------------------------------------------------------------- dashboard
\* f < n/100 for a load fraction f (a float: a zero denominator is inf or
\* nan, below nothing).
FracBelow(f, n) == f.den > 0 /\ f.num * 100 < n * f.den

\* The bands with their lower bounds excluded.
calculate_stress_level_exclusive(loading_pct) ==
    IF loading_pct.den > 0 /\ loading_pct.num * 100 <= 60 * loading_pct.den
    THEN << "Normal", "green" >>
    ELSE IF loading_pct.den > 0 /\ loading_pct.num * 100 <= 90 * loading_pct.den
    THEN << "Caution", "orange" >>
    ELSE << "Critical", "red" >>

\* app.calculate_stress_level: the band and colour of a load fraction.
calculate_stress_level(loading_pct) ==
    IF FracBelow(loading_pct, 60) THEN << "Normal", "green" >>
    ELSE IF FracBelow(loading_pct, 90) THEN << "Caution", "orange" >>
    ELSE << "Critical", "red" >>

\* Temperatures of a sensitivity sweep are in tenths of a degree.
Tenths == 10

\* The step floor of run_temperature_sensitivity_analysis, 1.0 degree.
STEP_FLOOR == 10

\* The step as requested, whatever its size.
RequestedStep(step) == step

\* if step < 1.0: step = 1.0
EffectiveStep(step) == IF step < STEP_FLOOR THEN STEP_FLOOR ELSE step

\* The while loop that fills temps_list: current, current + step, ... while
\* current <= max_temp, followed for `left` iterations.
RECURSIVE TempsLoop(_, _, _, _)
TempsLoop(current, max_temp, step, left) ==
    IF current <= max_temp /\ left > 0
    THEN << current >> \o TempsLoop(current + step, max_temp, step, left - 1)
    ELSE <<>>

TempsFrom(current, max_temp, step) == TempsLoop(current, max_temp, step, MaxSamples)

\* Records for the overloaded rows of the results table only.
SampleRecordsOfOverloads(temp, lines, results_table) ==
    LET Overloaded(rec) == rec.Overcapacity
    IN  SelectSeq([i \in 1..Len(results_table) |->
                      [Temperature |-> temp,
                       Line |-> lines[i].name,
                       LoadPct |-> [num |-> results_table[i].load_a * 100,
                                    den |-> results_table[i].rated_capacity],
                       Overcapacity |-> results_table[i].overcapacity,
                       ApparentLoad |-> results_table[i].load_a,
                       RatedCapacity |-> results_table[i].rated_capacity,
                       ActualCapacity |-> results_table[i].actual_capacity]],
                  Overloaded)

\* The records one successful sample adds to sensitivity_data: one per row of
\* the results table (Load % as a fraction).
SampleRecords(temp, lines, results_table) ==
    [i \in 1..Len(results_table) |->
        [Temperature |-> temp,
         Line |-> lines[i].name,
         LoadPct |-> [num |-> results_table[i].load_a * 100,
                      den |-> results_table[i].rated_capacity],
         Overcapacity |-> results_table[i].overcapacity,
         ApparentLoad |-> results_table[i].load_a,
         RatedCapacity |-> results_table[i].rated_capacity,
         ActualCapacity |-> results_table[i].actual_capacity]]

\* Load % >= 100 of a sensitivity record.
LoadAtLeast100(rec) == rec.LoadPct.num >= 100 * rec.LoadPct.den

\* sensitivity_df['Line'].unique(): the lines in order of first appearance.
RECURSIVE UniqueLines(_)
UniqueLines(df) ==
    IF df = <<>> THEN <<>>
    ELSE LET front == UniqueLines(SubSeq(df, 1, Len(df) - 1))
             line == df[Len(df)].Line
         IN  IF \E i \in 1..Len(front) : front[i] = line
             THEN front ELSE Append(front, line)

\* One row of the ranking: the lowest temperature at which the line's
\* Load % is at least 100 (None if there is none) and its highest Load %.
RankingRow(df, line) ==
    LET line_df == {i \in 1..Len(df) : df[i].Line = line}
        critical_temps == {df[i].Temperature : i \in {j \in line_df : LoadAtLeast100(df[j])}}
        critical_temp ==
            IF critical_temps = {} THEN <<>>
            ELSE << CHOOSE t \in critical_temps : \A u \in critical_temps : t <= u >>
        top == CHOOSE i \in line_df :
                   \A j \in line_df :
                       df[j].LoadPct.num * df[i].LoadPct.den
                           <= df[i].LoadPct.num * df[j].LoadPct.den
    IN  [Line |-> line,
         CriticalTemp |-> critical_temp,
         MaxLoadPct |-> df[top].LoadPct,
         Vulnerability |-> IF critical_temp # <<>> THEN "CRITICAL" ELSE "SAFE"]

\* The order of the sort keys were None to count as minus infinity.
sort_key_leq_none_first(a, b) ==
    \/ a.CriticalTemp = <<>>
    \/ b.CriticalTemp # <<>> /\ a.CriticalTemp[1] <= b.CriticalTemp[1]

\* The order of the sort keys: Critical Temp with None filled by infinity.
sort_key_leq(a, b) ==
    \/ b.CriticalTemp = <<>>
    \/ a.CriticalTemp # <<>> /\ a.CriticalTemp[1] <= b.CriticalTemp[1]

\* The tables sort_values('sort_key') may return: the rows in an order of
\* ascending sort key. The sort is the default quicksort, which is not stable:
\* rows of equal key come in any order (the tables of the model stand for
\* tables of any length).
SortedRankings(rows) ==
    {[i \in 1..Len(rows) |-> rows[p[i]]] :
        p \in {q \in [1..Len(rows) -> 1..Len(rows)] :
                  /\ \A i, j \in 1..Len(rows) : i # j => q[i] # q[j]
                  /\ \A i, j \in 1..Len(rows) :
                         i < j => sort_key_leq(rows[q[i]], rows[q[j]])}}

\* create_line_vulnerability_ranking: the tables it may return.
create_line_vulnerability_ranking(df) ==
    LET lines == UniqueLines(df)
    IN  SortedRankings([i \in 1..Len(lines) |-> RankingRow(df, lines[i])])

\* -------------------------------------------------------------- Contingency
\* The attributes an instance of Network has: its slots, and its methods under
\* the names the class body gives them (a name with two leading underscores is
\* stored as _Network__name).
NetworkAttributes ==
    {"subnet", "conductors", "buses", "lines", "loads", "generators",
     "transformers", "shunts", "results",
     "_Network__create_subnet", "find_bus", "_Network__adjust_s_nom",
     "_Network__calculate_stress", "_Network__adjust_load",
     "apply_atmospherics", "reset", "solve"}

\* A contingency network that is the base network itself (no copy).
ContingencyNetworkAlias == "base_network"

\* The reference contingency_network is bound to: copy.deepcopy makes a new
\* object, distinct from the base network.
ContingencyNetworkRef == "contingency_network"

\* .loc[component_name, "active"] = False on a component table.
SetInactive(rows, component_name) ==
    [i \in 1..Len(rows) |->
        IF rows[i].name = component_name THEN [rows[i] EXCEPT !.active = FALSE]
        ELSE rows[i]]

\* The row of a failed contingency.
FailureRow(component_type, component_name, error) ==
    [outaged_component |-> component_name,
     outaged_component_type |-> component_type,
     affected_branch |-> "POWER_FLOW_FAILED",
     load_a |-> None,
     rated_capacity |-> None,
     actual_capacity |-> None,
     at_risk |-> FALSE,
     overcapacity |-> FALSE,
     load_percentage |-> None,
     error |-> error]

\* An except clause that returns no row.
OnExceptionNoRow(component_type, component_name, error) == <<>>

\* What _analyze_single_contingency returns from its except clause.
OnException(component_type, component_name, error) ==
    << FailureRow(component_type, component_name, error) >>

\* The rows collected from a stress table: one per line that is overcapacity
\* or at risk.
Issues(component_type, component_name, stress_results) ==
    LET Row(line_result) ==
            IF line_result.overcapacity \/ line_result.at_risk
            THEN << [outaged_component |-> component_name,
                     outaged_component_type |-> component_type,
                     affected_branch |-> line_result.branch_name,
                     load_a |-> line_result.load_a,
                     rated_capacity |-> line_result.rated_capacity,
                     actual_capacity |-> line_result.actual_capacity,
                     at_risk |-> line_result.at_risk,
                     overcapacity |-> line_result.overcapacity,
                     load_percentage |-> line_result.load_percentage] >>
            ELSE <<>>
    IN  FlatMap(Row, stress_results)

\* Contingency._analyze_single_contingency, the flow solver answering `solved`:
\* the objects afterwards and the rows returned.
AnalyzeSingleContingency(o, component_type, component_name, atmos_params, solved) ==
    LET cn == ContingencyNetworkRef
        copied == (cn :> o["base_network"]) @@ o
        Failed(oo, error) ==
            [objs |-> oo, rows |-> OnException(component_type, component_name, error)]
        o1 == IF component_type = "Line"
              THEN [copied EXCEPT ![cn].subnet_lines = SetInactive(@, component_name)]
              ELSE IF component_type = "Transformer"
              THEN [copied EXCEPT ![cn].subnet_transformers = SetInactive(@, component_name)]
              ELSE copied
        AdjustLoadRow(load) ==
            IF "_Network__adjust_load" \notin NetworkAttributes
            THEN [ok |-> FALSE, error |-> "AttributeError"]
            ELSE IF "SunTime" \notin DOMAIN atmos_params
            THEN [ok |-> FALSE, error |-> "KeyError"]
            ELSE AdjustLoad(load, atmos_params.SunTime)
        loads == ApplyRows(AdjustLoadRow, o1[cn].loads, "load")
    IN  IF ~loads.ok THEN Failed(o1, loads.error)
        ELSE
        LET o2 == [o1 EXCEPT ![cn].subnet_loads = loads.rows]
            AdjustLineRow(line) ==
                IF "_adjust_s_nom" \notin NetworkAttributes
                THEN [ok |-> FALSE, error |-> "AttributeError"]
                ELSE AdjustSNom(atmos_params, line)
            lines == ApplyRows(AdjustLineRow, o2[cn].subnet_lines, "line")
        IN  IF ~lines.ok THEN Failed(o2, lines.error)
            ELSE
            LET o3 == [o2 EXCEPT ![cn].subnet_lines = lines.rows]
            IN  IF ~solved.converged THEN Failed(o3, "ConvergenceFailure")
                ELSE
                LET o4 == [o3 EXCEPT ![cn].p0 = solved.p0]
                    StressRow(line) ==
                        IF "_calculate_stress" \notin NetworkAttributes
                        THEN [ok |-> FALSE, error |-> "AttributeError"]
                        ELSE CalculateStress(line, o4[cn].p0)
                    stress == ApplyRows(StressRow, o4[cn].subnet_lines, "result")
                IN  IF ~stress.ok THEN Failed(o4, stress.error)
                    ELSE [objs |-> o4,
                          rows |-> Issues(component_type, component_name, stress.rows)]

\* The candidates of run_n1_analysis in the order its loops visit them: for
\* every requested type in turn, every row of that type's table; a type that
\* is neither "Line" nor "Transformer" is skipped.
Candidates(net, component_types) ==
    LET OfType(component_type) ==
            LET components ==
                    IF component_type = "Line" THEN net.subnet_lines
                    ELSE IF component_type = "Transformer" THEN net.subnet_transformers
                    ELSE <<>>
            IN  [i \in 1..Len(components) |->
                    [component_type |-> component_type,
                     component_name |-> components[i].name]]
    IN  FlatMap(OfType, component_types)

\* ------------------------------------------------------------------- inputs
LineNames == << "L0", "L1", "L2", "L3" >>
BranchNames == << "BR0", "BR1", "BR2", "BR3" >>
TransformerNames == << "T0", "T1", "T2" >>

\* Rows a lines table may hold (terminal buses, conductor, MOT, static s_nom).
LineCatalogue ==
    << [bus0 |-> 1, bus1 |-> 2, conductor |-> ORIOLE, MOT |-> 75, s_nom |-> 60000],
       [bus0 |-> 3, bus1 |-> 4, conductor |-> DRAKE, MOT |-> 75, s_nom |-> 200000],
       [bus0 |-> 5, bus1 |-> 6, conductor |-> ORIOLE, MOT |-> 75, s_nom |-> 100000] >>

\* Per-line flows the flow solver may answer with (kVA).
FlowValues == {31500 * k : k \in 0..MaxFlowLevel}

\* Keyword arguments a caller passes as atmospheric conditions.
AtmosChoices ==
    { [Ta |-> 25, WindVelocity |-> 2, SunTime |-> 12],
      [Ta |-> 25, WindVelocity |-> 10, SunTime |-> 14],
      [Ta |-> 75, WindVelocity |-> 2, SunTime |-> 12],
      [Ta |-> 25, WindVelocity |-> 2] }

\* What the external flow solver may do on a lines table: fail to converge, or
\* return a flow for every line (every line the same level k, or the levels
\* k, k+1, ... along the table, so that every line sees every flow value).
SolveOutcomes(lines, ds) ==
    {[converged |-> FALSE, p0 |-> <<>>]}
    \cup {[converged |-> TRUE,
           p0 |-> [name \in {lines[i].name : i \in 1..Len(lines)} |->
                     LET i == CHOOSE j \in 1..Len(lines) : lines[j].name = name
                     IN  31500 * ((k + d * (i - 1)) % (MaxFlowLevel + 1))]] :
             k \in 0..MaxFlowLevel, d \in ds}

\* Network.__init__ and __create_subnet: the tables as read, every component
\* active, no flows and an empty results list.
NewNetwork(line_rows, n_transformers) ==
    LET lines == [i \in 1..Len(line_rows) |->
                     [name |-> LineNames[i], branch_name |-> BranchNames[i],
                      active |-> TRUE] @@ line_rows[i]]
        loads == << [name |-> "D0", p_set |-> 100000] >>
    IN  [lines |-> line_rows,
         subnet_lines |-> lines,
         loads |-> loads,
         subnet_loads |-> loads,
         subnet_transformers |->
             [i \in 1..n_transformers |-> [name |-> TransformerNames[i], active |-> TRUE]],
         p0 |-> <<>>,
         results |-> <<>>]

\* reset() that rebuilds nothing.
create_subnet_keeps_tables(net) == net

\* Network.__create_subnet as reset() runs it: a new subnet, its lines added
\* from self.lines and its loads from self.loads (the unadjusted table), every
\* component active, no flows; self.results is not touched.
create_subnet(net) ==
    [net EXCEPT
        !.subnet_lines = [i \in 1..Len(net.lines) |->
                             [name |-> LineNames[i], branch_name |-> BranchNames[i],
                              active |-> TRUE] @@ net.lines[i]],
        !.subnet_loads = net.loads,
        !.subnet_transformers = [i \in 1..Len(@) |-> [@[i] EXCEPT !.active = TRUE]],
        !.p0 = <<>>]

\* Lines tables of at most MaxLines rows (the rows of a table in catalogue
\* order: the pipeline treats every row alike).
LineTables ==
    UNION {{[i \in 1..n |-> LineCatalogue[pick[i]]] :
               pick \in {f \in [1..n -> 1..Len(LineCatalogue)] :
                            \A i \in 1..n - 1 : f[i] <= f[i + 1]}} :
           n \in 0..MaxLines}

\* The value of component_types a caller of run_n1_analysis passes (<<>> for
\* the default None).
TypeLists ==
    { <<>>, << "Transformer" >>, << "Line", "Transformer" >>,
      << "Generator", "Line" >>, << "Line", "Line" >> }

\* -------------------------------------------------------------------- state
VARIABLES
    objs,      \* the Network objects alive: name of the reference -> network
    raised,    \* the exception the last call raised, None if it returned
    pc,        \* "idle", "sweep" while run_n1_analysis is in its loops, "sens"
               \* while run_temperature_sensitivity_analysis is in its loop
    sweep,     \* the locals of the running run_n1_analysis, and the base network
               \* as it was when the sweep began (<<>> or <<network>>)
    contingency_results,   \* Contingency.contingency_results: <<>> for None, else <<table>>
    analysed,  \* the analyses of the current or last sweep, in order: candidate,
               \* whether its flow solve converges, number of rows returned
    last,      \* <<>> or <<the last analysis: candidate, solver answer, rows>>
    loading_pct,    \* the load fraction last handed to calculate_stress_level
    stress_level,   \* what it returned (<<>> before any call)
    last_op,   \* the last Network method called on the base network, with its
               \* keyword arguments
    sens,      \* the locals of the running or last run_temperature_sensitivity_analysis,
               \* and the network as it was when it began
    sensitivity_df,   \* its return value: <<>> for None, else <<table>>
    vuln_df    \* <<>> or <<the table create_line_vulnerability_ranking returned>>

sensVars == << sens, sensitivity_df, vuln_df >>

vars == << objs, raised, pc, sweep, contingency_results, analysed, last,
           loading_pct, stress_level, config, last_op, sensVars >>

base_network == objs["base_network"]

NoSens ==
    [atmos_params |-> <<>>, temp_range |-> <<>>, step |-> 0, warnings |-> 0,
     temps_list |-> <<>>, todo |-> <<>>, sensitivity_data |-> <<>>,
     failed_temps |-> <<>>, before |-> <<>>]

NewOp == [op |-> "new", kwargs |-> <<>>]

NoSweep ==
    [atmos_params |-> <<>>, component_types |-> <<>>, todo |-> <<>>,
     all_contingency_results |-> <<>>, base_before |-> <<>>]

\* The state once the config module is loaded and the network constructed.
InitWithConfig(net, cfg) ==
    /\ config = cfg
    /\ last_op = NewOp
    /\ sens = NoSens
    /\ sensitivity_df = <<>>
    /\ vuln_df = <<>>
    /\ objs = [base_network |-> net]
    /\ raised = None
    /\ pc = "idle"
    /\ sweep = NoSweep
    /\ contingency_results = <<>>
    /\ analysed = <<>>
    /\ last = <<>>
    /\ loading_pct = [num |-> 0, den |-> 1000]
    /\ stress_level = <<>>

InitWith(net) == InitWithConfig(net, DefaultConfig)

Init == \E rows \in LineTables : InitWith(NewNetwork(rows, 0))

\* A call of Network.apply_atmospherics on the base network.
ApplyAtmospherics ==
    /\ pc = "idle"
    /\ \E kwargs \in AtmosChoices,
          solved \in SolveOutcomes(base_network.subnet_lines, {1}) :
        LET r == apply_atmospherics(base_network, kwargs, solved)
        IN  /\ objs' = [objs EXCEPT !["base_network"] = r.net]
            /\ raised' = r.raised
            /\ last_op' = [op |-> "apply", kwargs |-> kwargs,
                            repeated |-> last_op.op = "apply" /\ last_op.kwargs = kwargs]
    /\ UNCHANGED << pc, sweep, contingency_results, analysed, last,
                    loading_pct, stress_level, config, sensVars >>

\* A call of Network.reset on the base network.
Reset ==
    /\ pc = "idle"
    /\ objs' = [objs EXCEPT !["base_network"] = create_subnet(base_network)]
    /\ raised' = None
    /\ last_op' = [op |-> "reset", kwargs |-> <<>>]
    /\ UNCHANGED << pc, sweep, contingency_results, analysed, last,
                    loading_pct, stress_level, config, sensVars >>

Next == ApplyAtmospherics \/ Reset

Spec == Init /\ [][Next]_vars

\* ------------------------------------------------- load-time configuration
\* A network whose loads table is empty.
WithoutLoads(net) == [net EXCEPT !.loads = <<>>, !.subnet_loads = <<>>]

\* Configurations whose minimum-load hour is not before the maximum-load hour.
ContradictoryConfigs ==
    { [MINIMUM_LOAD_TIME |-> 16, MAXIMUM_LOAD_TIME |-> 4],
      [MINIMUM_LOAD_TIME |-> 12, MAXIMUM_LOAD_TIME |-> 12] }

\* A network with or without loads, under a contradictory configuration.
InitConfig ==
    \E rows \in LineTables, with_loads \in BOOLEAN, cfg \in ContradictoryConfigs :
        InitWithConfig(IF with_loads THEN NewNetwork(rows, 0)
                       ELSE WithoutLoads(NewNetwork(rows, 0)), cfg)

NextConfig == ApplyAtmospherics

SpecConfig == InitConfig /\ [][NextConfig]_vars

\* ---------------------------------------------------------------- N-1 sweep
\* Base networks of a sweep: lines of the 69 kV and 138 kV classes, up to two
\* transformers, fresh or after one base-case evaluation.
N1LineTables ==
    {rows \in LineTables : \A i \in 1..Len(rows) : find_bus(rows[i].bus0)[1].v_nom # 115}

N1AtmosChoices == {a \in AtmosChoices : "SunTime" \in DOMAIN a => a.Ta = 25}

InitN1 ==
    \E rows \in N1LineTables, n_transformers \in 0..2, evaluated \in BOOLEAN :
        LET net == NewNetwork(rows, n_transformers)
            solved == CHOOSE sv \in SolveOutcomes(net.subnet_lines, {0}) :
                          sv.converged /\ \A n \in DOMAIN sv.p0 : sv.p0[n] = 63000
        IN  InitWith(IF evaluated
                     THEN apply_atmospherics(net,
                              [Ta |-> 25, WindVelocity |-> 10, SunTime |-> 14], solved).net
                     ELSE net)

\* run_n1_analysis is called (once on a Contingency object): the defaults, the
\* empty result list.
RunN1Start ==
    /\ pc = "idle"
    /\ contingency_results = <<>>
    /\ \E atmos_params \in N1AtmosChoices, component_types \in TypeLists :
        sweep' = [atmos_params |-> atmos_params,
                  component_types |-> IF component_types = <<>> THEN << "Line" >>
                                      ELSE component_types,
                  todo |-> Candidates(base_network,
                               IF component_types = <<>> THEN << "Line" >>
                               ELSE component_types),
                  all_contingency_results |-> <<>>,
                  base_before |-> << base_network >>]
    /\ pc' = "sweep"
    /\ analysed' = <<>>
    /\ last' = <<>>
    /\ UNCHANGED << objs, raised, contingency_results, loading_pct, stress_level,
                    config, last_op, sensVars >>

\* One iteration of the component loop: the next candidate is analysed and its
\* rows, if any, are added to the list.
N1Step ==
    /\ pc = "sweep"
    /\ sweep.todo # <<>>
    /\ \E solved \in SolveOutcomes(base_network.subnet_lines, {0}) :
        LET c == Head(sweep.todo)
            r == AnalyzeSingleContingency(objs, c.component_type, c.component_name,
                                          sweep.atmos_params, solved)
        IN  /\ objs' = r.objs
            /\ sweep' = [sweep EXCEPT
                   !.todo = Tail(@),
                   !.all_contingency_results =
                       IF r.rows # <<>> THEN @ \o r.rows ELSE @]
            /\ analysed' = Append(analysed,
                   [candidate |-> c, converged |-> solved.converged,
                    n_rows |-> Len(r.rows)])
            /\ last' = << [candidate |-> c, solved |-> solved, rows |-> r.rows] >>
    /\ UNCHANGED << raised, pc, contingency_results, loading_pct, stress_level,
                    config, last_op, sensVars >>

\* The loops are over: the list becomes contingency_results and is returned.
RunN1Finish ==
    /\ pc = "sweep"
    /\ sweep.todo = <<>>
    /\ contingency_results' = << sweep.all_contingency_results >>
    /\ pc' = "idle"
    /\ UNCHANGED << objs, raised, sweep, analysed, last, loading_pct, stress_level,
                    config, last_op, sensVars >>

NextN1 == RunN1Start \/ N1Step \/ RunN1Finish

SpecN1 == InitN1 /\ [][NextN1]_vars

\* ------------------------------------------------------ sensitivity sweep
\* The (min_temp, max_temp, step) a caller passes, in tenths of a degree: a
\* whole or fractional minimum, a maximum below, at or above it, a step that
\* is negative, zero, below, at or above the floor.
TempRanges ==
    {<< min_temp, max_temp, step >> :
        min_temp \in {150, 155},
        max_temp \in {145} \cup {150 + 5 * j : j \in 0..(2 * MaxSpan)},
        step \in {-10, 0, 1, 10, 15}}

\* The flow solver within a sweep: it fails, or it answers with the flows that
\* put 63 MVA on the first line.
SensSolveOutcomes(lines) ==
    {sv \in SolveOutcomes(lines, {1}) :
        sv.converged => (lines = <<>> \/ sv.p0[lines[1].name] = 63000)}

\* run_temperature_sensitivity_analysis is called on the base network: the
\* step is validated and the list of temperatures generated.
SensStart ==
    /\ pc = "idle"
    /\ sens = NoSens
    /\ \E temp_range \in TempRanges,
          atmos_params \in {a \in AtmosChoices : a.Ta = 25 /\ a.WindVelocity = 2} :
        LET step == EffectiveStep(temp_range[3])
            temps_list == TempsFrom(temp_range[1], temp_range[2], step)
        IN  sens' = [atmos_params |-> atmos_params,
                     temp_range |-> temp_range,
                     step |-> step,
                     warnings |-> (IF temp_range[3] < STEP_FLOOR THEN 1 ELSE 0)
                                  + (IF Len(temps_list) > 50 THEN 1 ELSE 0),
                     temps_list |-> temps_list,
                     todo |-> temps_list,
                     sensitivity_data |-> <<>>,
                     failed_temps |-> <<>>,
                     before |-> << base_network >>]
    /\ pc' = "sens"
    /\ sensitivity_df' = <<>>
    /\ UNCHANGED << objs, raised, sweep, contingency_results, analysed, last,
                    loading_pct, stress_level, config, last_op, vuln_df >>

\* One iteration of the loop over temps_list: the network handed to the sweep
\* is reset and evaluated with Ta set to the sample; an exception is caught
\* and the sample noted as failed.
SensStep ==
    /\ pc = "sens"
    /\ sens.todo # <<>>
    /\ \E solved \in SensSolveOutcomes(base_network.subnet_lines) :
        LET temp == Head(sens.todo)
            modified_params == [Ta |-> temp \div Tenths] @@ sens.atmos_params
            r == apply_atmospherics(create_subnet(base_network), modified_params, solved)
        IN  /\ objs' = [objs EXCEPT !["base_network"] = r.net]
            /\ raised' = r.raised
            /\ last_op' = [op |-> "apply", kwargs |-> modified_params,
                            repeated |-> FALSE]
            /\ sens' = [sens EXCEPT
                   !.todo = Tail(@),
                   !.sensitivity_data =
                       IF r.raised = None
                       THEN @ \o SampleRecords(temp, r.net.subnet_lines, r.net.results)
                       ELSE @,
                   !.failed_temps =
                       IF r.raised = None THEN @
                       ELSE Append(@, << temp, r.raised >>)]
    /\ UNCHANGED << pc, sweep, contingency_results, analysed, last,
                    loading_pct, stress_level, config, sensitivity_df, vuln_df >>

\* The loop is over: the records are returned as a table, or None if there
\* are none.
SensFinish ==
    /\ pc = "sens"
    /\ sens.todo = <<>>
    /\ sensitivity_df' = IF sens.sensitivity_data # <<>>
                         THEN << sens.sensitivity_data >> ELSE <<>>
    /\ pc' = "idle"
    /\ UNCHANGED << objs, raised, sweep, contingency_results, analysed, last,
                    loading_pct, stress_level, config, last_op, sens, vuln_df >>

NextSens == SensStart \/ SensStep \/ SensFinish

SpecSens == Init /\ [][NextSens]_vars

\* ------------------------------------------------------- display bands
InitLevel == InitWith(NewNetwork(<<>>, 0))

\* A call of calculate_stress_level on a load fraction.
ClassifyStressLevel ==
    /\ \E x \in 0..MaxPermille :
        /\ loading_pct' = [num |-> x, den |-> 1000]
        /\ stress_level' = calculate_stress_level([num |-> x, den |-> 1000])
    /\ UNCHANGED << objs, raised, pc, sweep, contingency_results, analysed, last,
                    config, last_op, sensVars >>

NextLevel == ClassifyStressLevel

SpecLevel == InitLevel /\ [][NextLevel]_vars

\* ---------------------------------------------------- atmospheric merge
\* Records over every subset of the fields of a record.
Restrictions(rec) ==
    {[f \in fields |-> rec[f]] : fields \in SUBSET DOMAIN rec}

\* The keyword arguments a PartialConductorParams is made of: any of ambient
\* temperature, wind, hour and a caller's Direction.
PartialsChoices ==
    UNION {Restrictions([Ta |-> ta, WindVelocity |-> 2, SunTime |-> 12,
                         Direction |-> direction]) :
              ta \in {25, 75}, direction \in {"EastWest", "NorthSouth"}}

\* The per-call overrides: the derived Direction and the line's Tc, and
\* possibly an ambient temperature.
RemainderChoices ==
    {r \in UNION {Restrictions([Direction |-> direction, Tc |-> tc, Ta |-> 30]) :
                     direction \in {"EastWest", "NorthSouth"}, tc \in {75, 100}} :
        "Direction" \in DOMAIN r}

\* PartialConductorParams(**kwargs).apply(**remainder).
PartialConductorParamsApply ==
    /\ \E kwargs \in PartialsChoices, remainder \in RemainderChoices :
        LET resolved == PartialApply(kwargs, remainder)
        IN  last_op' = [op |-> "merge", kwargs |-> kwargs,
                        remainder |-> remainder,
                        full_arguments |-> resolved.params,
                        partials |-> resolved.partials]
    /\ UNCHANGED << objs, raised, pc, sweep, contingency_results, analysed, last,
                    loading_pct, stress_level, config, sensVars >>

NextMerge == PartialConductorParamsApply

SpecMerge == InitLevel /\ [][NextMerge]_vars

\* --------------------------------------------------- vulnerability ranking
\* The sensitivity tables handed to the ranking: two samples of one to
\* MaxRankLines lines, each at 50, 100 or 150 per cent of a rated 1 MVA.
RankInputs ==
    UNION {
        {[k \in 1..(2 * n) |->
            LET temp == IF k <= n THEN 150 ELSE 160
                i == IF k <= n THEN k ELSE k - n
                load == f[<< i, temp >>]
            IN  [Temperature |-> temp,
                 Line |-> i,
                 LoadPct |-> [num |-> load * 100, den |-> 1000],
                 Overcapacity |-> load > 1000,
                 ApparentLoad |-> load,
                 RatedCapacity |-> 1000,
                 ActualCapacity |-> 1000]] :
            f \in [(1..n) \X {150, 160} -> {500, 1000, 1500}]} :
        n \in 1..MaxRankLines}

\* A call of create_line_vulnerability_ranking on a sensitivity table.
CreateLineVulnerabilityRanking ==
    /\ \E df \in RankInputs :
        /\ sensitivity_df' = << df >>
        /\ \E ranking \in create_line_vulnerability_ranking(df) :
               vuln_df' = << ranking >>
    /\ UNCHANGED << objs, raised, pc, sweep, contingency_results, analysed, last,
                    loading_pct, stress_level, config, last_op, sens >>

NextRank == CreateLineVulnerabilityRanking

SpecRank == InitLevel /\ [][NextRank]_vars

\* ------------------------------------------------------ claims: N-1 sweep
\* The working copy of the last iteration, when there is one.
HasContingencyNetwork == "contingency_network" \in DOMAIN objs

\* A sweep has begun (it is running or it has finished).
SweepBegun == sweep.base_before # <<>>

\* The sweep has run to its end.
SweepFinished == pc = "idle" /\ contingency_results # <<>>

IsFailureRow(row) == row.affected_branch = "POWER_FLOW_FAILED"

\* C1: from the start of an N-1 sweep to its end, whatever the flow solves of
\* the candidates do, the base network (line table with active flags and
\* s_nom, loads, flows, stored results) is what it was when the sweep began.
C1_BaseNetworkNeverMutated ==
    SweepBegun =>
        /\ base_network = sweep.base_before[1]
        /\ base_network.subnet_lines = sweep.base_before[1].subnet_lines
        /\ base_network.subnet_loads = sweep.base_before[1].subnet_loads
        /\ base_network.results = sweep.base_before[1].results

\* C1 witness: a sweep over at least two candidates has finished on a base
\* network that holds base-case results, the last flow solve converged, and
\* the working copy was mutated (its tables differ from the base network's).
C1_Witness ==
    /\ SweepFinished
    /\ Len(analysed) >= 2
    /\ \E i \in 1..Len(analysed) : ~analysed[i].converged
    /\ \E i \in 1..Len(analysed) : analysed[i].converged
    /\ base_network.results # <<>>
    /\ HasContingencyNetwork
    /\ objs["contingency_network"].subnet_lines # base_network.subnet_lines
    /\ objs["contingency_network"].subnet_loads # base_network.subnet_loads

RECURSIVE SumRows(_)
SumRows(as) == IF as = <<>> THEN 0 ELSE Head(as).n_rows + SumRows(Tail(as))

\* The components a sweep was asked to outage: [type, name] of every row of
\* the table of every requested supported type.
Requested ==
    {[component_type |-> "Line", component_name |-> base_network.subnet_lines[i].name] :
        i \in {j \in 1..Len(base_network.subnet_lines) :
                 "Line" \in Range(sweep.component_types)}}
    \cup
    {[component_type |-> "Transformer",
      component_name |-> base_network.subnet_transformers[i].name] :
        i \in {j \in 1..Len(base_network.subnet_transformers) :
                 "Transformer" \in Range(sweep.component_types)}}

\* C2: a candidate whose flow solve fails to converge contributes exactly one
\* row, the flow-failed sentinel row tagged with the candidate, that row is
\* in the list of results, and the sweep goes on: at its end every requested
\* component has been analysed and the result table holds every row returned.
C2_FailedSolveOneSentinelRow ==
    /\ (last # <<>> /\ ~last[1].solved.converged) =>
           /\ Len(last[1].rows) = 1
           /\ IsFailureRow(last[1].rows[1])
           /\ last[1].rows[1].outaged_component = last[1].candidate.component_name
           /\ last[1].rows[1].outaged_component_type = last[1].candidate.component_type
           /\ Len(sweep.all_contingency_results) >= 1
           /\ sweep.all_contingency_results[Len(sweep.all_contingency_results)]
                  = last[1].rows[1]
    /\ Len(sweep.all_contingency_results) = SumRows(analysed)
    /\ SweepFinished =>
           /\ \A c \in Requested : \E i \in 1..Len(analysed) : analysed[i].candidate = c
           /\ contingency_results[1] = sweep.all_contingency_results
           /\ \A i \in 1..Len(analysed) :
                  ~analysed[i].converged =>
                      \E k \in 1..Len(contingency_results[1]) :
                          /\ IsFailureRow(contingency_results[1][k])
                          /\ contingency_results[1][k].outaged_component
                                 = analysed[i].candidate.component_name
                          /\ contingency_results[1][k].outaged_component_type
                                 = analysed[i].candidate.component_type

\* C2 witness: a finished sweep in which the flow solve of the first candidate
\* failed, a later candidate was analysed, and the flow solve itself was what
\* failed (the network has no line, so the solver was reached).
C2_Witness ==
    /\ SweepFinished
    /\ Len(analysed) >= 2
    /\ ~analysed[1].converged
    /\ analysed[1].n_rows = 1
    /\ IsFailureRow(contingency_results[1][1])
    /\ contingency_results[1][1].error = "ConvergenceFailure"
    /\ contingency_results[1][1].outaged_component = analysed[1].candidate.component_name
    /\ analysed[2].converged

\* The rows the analysis of a candidate is to return when the flow solve
\* converges to p0: the stress pipeline on a copy of the network with the
\* candidate out of service, one row per line at risk or overcapacity.
QualifyingRows(net, c, atmos_params, p0) ==
    LET lines == AdjustLines(
                     IF c.component_type = "Line"
                     THEN SetInactive(net.subnet_lines, c.component_name)
                     ELSE net.subnet_lines,
                     atmos_params)
        stress == StressLines(lines.rows, p0)
    IN  Issues(c.component_type, c.component_name, stress.rows)

\* The pipeline of a candidate is defined: no configuration or lookup error.
PipelineDefined(net, atmos_params, p0) ==
    /\ AdjustLoads(net.loads, atmos_params).ok
    /\ AdjustLines(net.subnet_lines, atmos_params).ok
    /\ StressLines(AdjustLines(net.subnet_lines, atmos_params).rows, p0).ok

\* C3 (as claimed): for a candidate whose flow solve succeeds, the rows
\* recorded are exactly the lines whose stress result is at risk or
\* overcapacity, each tagged with the outaged component's name and type, and
\* there is no sentinel row.
C3_RowsAreExactlyTheIssues ==
    (/\ last # <<>>
     /\ last[1].solved.converged
     /\ PipelineDefined(base_network, sweep.atmos_params, last[1].solved.p0)) =>
        /\ last[1].rows = QualifyingRows(base_network, last[1].candidate,
                                         sweep.atmos_params, last[1].solved.p0)
        /\ \A k \in 1..Len(last[1].rows) : ~IsFailureRow(last[1].rows[k])

\* C4 (as claimed): when the sweep finishes, every requested component has
\* been outaged exactly once and the result table holds every qualifying
\* (outaged component, affected line) row exactly once.
C4_EveryQualifyingRowOnce ==
    (/\ SweepFinished
     /\ Range(sweep.component_types) = {"Line"}
     /\ Len(sweep.component_types) = 1) =>
        /\ \A c \in Requested :
               Cardinality({i \in 1..Len(analysed) : analysed[i].candidate = c}) = 1
        /\ (/\ last # <<>>
            /\ last[1].solved.converged
            /\ PipelineDefined(base_network, sweep.atmos_params, last[1].solved.p0)) =>
               LET want == QualifyingRows(base_network, last[1].candidate,
                                          sweep.atmos_params, last[1].solved.p0)
               IN  \A k \in 1..Len(want) :
                       Cardinality({j \in 1..Len(contingency_results[1]) :
                                       contingency_results[1][j] = want[k]}) = 1

\* ------------------------------------------------- claims: stress pipeline
results == base_network.results

subnet_lines == base_network.subnet_lines

\* The last call returned: the stored results are those of the line table.
ResultsFresh ==
    /\ last_op.op = "apply"
    /\ raised = None
    /\ Len(results) = Len(subnet_lines)

C6_AtRiskIffDynamicAboveRated ==
    ResultsFresh =>
        \A i \in 1..Len(results) :
            /\ results[i].actual_capacity = subnet_lines[i].s_nom
            /\ results[i].rated_capacity \in
                   {find_rating(subnet_lines[i].conductor, subnet_lines[i].MOT)[1][col] :
                       col \in {"RatingMVA_69", "RatingMVA_138"}}
            /\ results[i].at_risk
                   <=> (subnet_lines[i].s_nom > results[i].rated_capacity)

\* C6 witness: one evaluation found a line at risk and a line not at risk.
C6_Witness ==
    /\ ResultsFresh
    /\ \E i \in 1..Len(results) :
           results[i].at_risk /\ subnet_lines[i].s_nom > results[i].rated_capacity
    /\ \E i \in 1..Len(results) :
           ~results[i].at_risk /\ subnet_lines[i].s_nom < results[i].rated_capacity

\* C7 (as claimed): in every result row overcapacity is true exactly when the
\* load exceeds the actual (dynamic) capacity, and load_percentage is the load
\* as a fraction of the actual capacity (two fractions of one non-zero load
\* are equal exactly when their denominators are).
C7_OvercapacityAgainstActual ==
    \A i \in 1..Len(results) :
        /\ results[i].overcapacity
               <=> (results[i].load_a > results[i].actual_capacity)
        /\ results[i].load_a > 0 =>
               results[i].load_percentage
                   = [num |-> results[i].load_a, den |-> results[i].actual_capacity]

\* The nominal voltage of a line: that of its terminal buses.
NominalVoltage(line) == find_bus(line.bus0)[1].v_nom

\* C8 (as claimed): the rated capacity a line is classified against is the
\* rating of its conductor and MOT at the line's own voltage class, never the
\* rating of another class.
C8_RatedCapacityOfOwnClass ==
    ResultsFresh =>
        \A i \in 1..Len(results) :
            LET ratings == find_rating(subnet_lines[i].conductor, subnet_lines[i].MOT)[1]
                v == NominalVoltage(subnet_lines[i])
            IN  /\ v \in {69, 138}
                /\ v = 69 => results[i].rated_capacity = ratings.RatingMVA_69
                /\ v = 138 => results[i].rated_capacity = ratings.RatingMVA_138

\* C10: a line whose convective plus radiative loss is less than its solar
\* gain at the target temperature has a rating of 0, and the capacity
\* installed on it is 0.
C10_ZeroRatingWhenGainExceedsLoss ==
    \A i \in 1..Len(subnet_lines) :
        ("Qs" \in DOMAIN subnet_lines[i]
            /\ subnet_lines[i].Qc + subnet_lines[i].Qr < subnet_lines[i].Qs)
        => subnet_lines[i].s_nom = 0

\* C10 witness: the ratings were installed under conditions in which a line
\* gains more heat from the sun than it loses, and its capacity is 0.
C10_Witness ==
    \E i \in 1..Len(subnet_lines) :
        /\ "Qs" \in DOMAIN subnet_lines[i]
        /\ subnet_lines[i].Qs > 0
        /\ subnet_lines[i].Qc + subnet_lines[i].Qr < subnet_lines[i].Qs
        /\ subnet_lines[i].s_nom = 0

\* ---------------------------------------------------- claims: display bands
\* C9: a load fraction below 0.60 is Normal, one from 0.60 up to but not
\* including 0.90 is Caution, one of 0.90 or more is Critical.
C9_BandsInclusiveLowerBound ==
    stress_level # <<>> =>
        /\ loading_pct.den = 1000
        /\ loading_pct.num < 600 => stress_level = << "Normal", "green" >>
        /\ (loading_pct.num >= 600 /\ loading_pct.num < 900)
               => stress_level = << "Caution", "orange" >>
        /\ loading_pct.num >= 900 => stress_level = << "Critical", "red" >>

\* C9 witness: the fraction 0.60 was classified, as Caution.
C9_Witness ==
    /\ loading_pct = [num |-> 600, den |-> 1000]
    /\ stress_level = << "Caution", "orange" >>

\* ------------------------------------------------------ claims: evaluation
\* The last call was apply_atmospherics and it got as far as installing the
\* line ratings.
RatingsInstalled ==
    /\ last_op.op = "apply"
    /\ raised \in {None, "ConvergenceFailure"}

\* C11 (as claimed): after apply_atmospherics completes every line's s_nom is
\* strictly positive, whatever the atmospheric conditions.
C11_SNomStrictlyPositive ==
    ResultsFresh => \A i \in 1..Len(subnet_lines) : subnet_lines[i].s_nom > 0

\* C11 (amended): after apply_atmospherics completes every line's s_nom is
\* non-negative, and it is strictly positive exactly when the line's convective
\* plus radiative loss exceeds its solar gain.
C11_SNomPositiveIffLossExceedsGain ==
    ResultsFresh =>
        \A i \in 1..Len(subnet_lines) :
            /\ subnet_lines[i].s_nom >= 0
            /\ subnet_lines[i].s_nom > 0
                   <=> subnet_lines[i].Qc + subnet_lines[i].Qr > subnet_lines[i].Qs

\* C11 witness: an evaluation completed on a network with lines, each with a
\* positive capacity other than the one of its input row.
C11_Witness ==
    /\ ResultsFresh
    /\ Len(subnet_lines) >= 2
    /\ \A i \in 1..Len(subnet_lines) :
           /\ subnet_lines[i].s_nom > 0
           /\ subnet_lines[i].s_nom # base_network.lines[i].s_nom

\* The keyword arguments of the reference scenario (the fields the model reads).
AMBIENT_DEFAULTS == [Ta |-> 25, WindVelocity |-> 2, SunTime |-> 12]

C17_FailedSolveLeavesNoResults ==
    (last_op.op = "apply" /\ raised = "ConvergenceFailure") => results = <<>>

\* The terminal buses of a line.
Bus0(line) == find_bus(line.bus0)[1]

Bus1(line) == find_bus(line.bus1)[1]

\* C19 (as claimed): a rated line whose x delta and y delta between its
\* terminals are equal is classified east-west.
C19_TieIsEastWest ==
    \A i \in 1..Len(subnet_lines) :
        LET line == subnet_lines[i]
        IN  (/\ "Qs" \in DOMAIN line
             /\ Abs(Bus0(line).x - Bus1(line).x) = Abs(Bus0(line).y - Bus1(line).y))
            => LineDirection(Bus0(line), Bus1(line)) = "EastWest"

\* ------------------------------------------------- claims: error handling
\* The exceptions a configuration or lookup error shows as: a missing keyword
\* field, a conductor or rating row that was not found, an unresolved
\* parameter, a contradictory load-time configuration.
ConfigOrLookupErrors ==
    {"KeyError", "TypeError", "ConfigurationError", "AssertionError"}

\* C16 (as claimed): no row of a sweep's result list is a flow-solve-failed
\* sentinel row made from a configuration or lookup error.
C16_ConfigErrorNeverSentinelRow ==
    \A i \in 1..Len(sweep.all_contingency_results) :
        LET row == sweep.all_contingency_results[i]
        IN  IsFailureRow(row) => row.error \notin ConfigOrLookupErrors

\* C18 (as claimed): under a configuration whose minimum-load hour is not
\* strictly before its maximum-load hour, every call of apply_atmospherics
\* fails and leaves the network as it was, whatever the number of loads.
C18_ContradictoryConfigFailsFirst ==
    [][(~(MINIMUM_LOAD_TIME < MAXIMUM_LOAD_TIME) /\ last_op'.op = "apply")
           => (raised' # None /\ objs' = objs)]_vars

\* ------------------------------------------- claims: sensitivity sweep
\* A sensitivity sweep has begun (it is running or it has finished).
SensBegun == sens.before # <<>>

SensFinished == SensBegun /\ pc = "idle"

\* ceil(a / b) for a >= 0, b > 0.
CeilDiv(a, b) == (a + b - 1) \div b

\* C14: a sweep requested with a step below the floor runs with the floor as
\* its step (and a warning); for min <= max it has, and executes, at most
\* ceil((max - min) / floor) + 1 samples, each within [min, max], the first
\* being min.
C14_StepWidenedAndSamplesBounded ==
    SensBegun =>
        LET min_temp == sens.temp_range[1]
            max_temp == sens.temp_range[2]
            executed == Len(sens.temps_list) - Len(sens.todo)
        IN  /\ sens.temp_range[3] < STEP_FLOOR
                   => (sens.step = STEP_FLOOR /\ sens.warnings >= 1)
            /\ min_temp <= max_temp
                   => /\ Len(sens.temps_list) <= CeilDiv(max_temp - min_temp, STEP_FLOOR) + 1
                      /\ executed <= CeilDiv(max_temp - min_temp, STEP_FLOOR) + 1
                      /\ sens.temps_list[1] = min_temp
                      /\ \A k \in 1..Len(sens.temps_list) :
                             /\ min_temp <= sens.temps_list[k]
                             /\ sens.temps_list[k] <= max_temp

\* C14 witness: a sweep requested with a step of 0.1 degree over a range of two
\* degrees or more has finished, having run as many samples as the bound
\* allows, one of them failing.
C14_Witness ==
    /\ SensFinished
    /\ sens.temp_range[3] < STEP_FLOOR
    /\ sens.temp_range[2] - sens.temp_range[1] >= 2 * STEP_FLOOR
    /\ Len(sens.temps_list)
           = CeilDiv(sens.temp_range[2] - sens.temp_range[1], STEP_FLOOR) + 1
    /\ sens.failed_temps # <<>>
    /\ sens.sensitivity_data # <<>>

\* C20 (as claimed): during and after a sensitivity sweep the network handed
\* to it is as it was when the sweep began.
C20_SweepLeavesNetworkAlone ==
    SensBegun => base_network = sens.before[1]

\* ------------------------------------------ claims: vulnerability ranking
\* The rows of the sensitivity table of a line.
RecordsOf(line) ==
    {i \in 1..Len(sensitivity_df[1]) : sensitivity_df[1][i].Line = line}

\* The line reaches 100 % load at some sample of the sensitivity table.
ReachesFull(line) ==
    \E i \in RecordsOf(line) : LoadAtLeast100(sensitivity_df[1][i])

\* C15: in the ranking every line that never reaches 100 % load stands
\* strictly after every line that reaches 100 % at some sample.
C15_SafeLinesAfterCriticalLines ==
    vuln_df # <<>> =>
        \A i, j \in 1..Len(vuln_df[1]) :
            (ReachesFull(vuln_df[1][i].Line) /\ ~ReachesFull(vuln_df[1][j].Line))
                => i < j

\* C15 witness: a ranking of a table whose first line never reaches 100 % and
\* whose second line does, at the second sample only.
C15_Witness ==
    /\ vuln_df # <<>>
    /\ Len(vuln_df[1]) = 2
    /\ ~ReachesFull(1)
    /\ ReachesFull(2)
    /\ ~LoadAtLeast100(sensitivity_df[1][2])
    /\ vuln_df[1][1].Line = 2
    /\ vuln_df[1][1].CriticalTemp = << 160 >>
    /\ vuln_df[1][2].Vulnerability = "SAFE"

\* ----------------------------------------------------- claims: orientation
\* C21 (as claimed): a rated line is east-west when the x delta between its
\* terminal buses is the larger and north-south when the y delta between
\* them is the larger.
C21_OrientationFromTerminalDeltas ==
    \A i \in 1..Len(subnet_lines) :
        LET line == subnet_lines[i]
            x_delta == Abs(Bus0(line).x - Bus1(line).x)
            y_delta == Abs(Bus0(line).y - Bus1(line).y)
            direction == LineDirection(Bus0(line), Bus1(line))
        IN  "Qs" \in DOMAIN line =>
                /\ x_delta > y_delta => direction = "EastWest"
                /\ y_delta > x_delta => direction = "NorthSouth"

\* ---------------------------------------------- claims: sweep bookkeeping
\* The samples the sweep has run so far.
ExecutedTemps ==
    {sens.temps_list[k] : k \in 1..(Len(sens.temps_list) - Len(sens.todo))}

\* The samples noted as failed.
FailedTemps == {sens.failed_temps[k][1] : k \in 1..Len(sens.failed_temps)}

\* The positions in sensitivity_data of the records of a sample and a line.
RecordsAt(temp, line) ==
    {k \in 1..Len(sens.sensitivity_data) :
        /\ sens.sensitivity_data[k].Temperature = temp
        /\ sens.sensitivity_data[k].Line = line}

\* C22: in a sweep every executed sample that did not fail has exactly one
\* record per line of the network, tagged with the sample; every failed sample
\* has no record and one entry in the skipped list, and the sweep goes on; so
\* records = successful samples x lines and successful + skipped = samples.
C22_OneRecordPerLinePerGoodSample ==
    SensBegun =>
        LET names == {subnet_lines[i].name : i \in 1..Len(subnet_lines)}
            good == ExecutedTemps \ FailedTemps
        IN  /\ FailedTemps \subseteq ExecutedTemps
            /\ Cardinality(FailedTemps) = Len(sens.failed_temps)
            /\ \A temp \in good : \A line \in names :
                   Cardinality(RecordsAt(temp, line)) = 1
            /\ \A temp \in FailedTemps : \A line \in names :
                   RecordsAt(temp, line) = {}
            /\ Len(sens.sensitivity_data) = Cardinality(good) * Len(subnet_lines)
            /\ Cardinality(good) + Len(sens.failed_temps)
                   = Cardinality(ExecutedTemps)
            /\ SensFinished => Cardinality(ExecutedTemps) = Len(sens.temps_list)

\* C22 witness: a finished sweep of three samples on a network of two lines,
\* the second sample failed, the first and the third recorded.
C22_Witness ==
    /\ SensFinished
    /\ Len(subnet_lines) = 2
    /\ Len(sens.temps_list) = 3
    /\ FailedTemps = {sens.temps_list[2]}
    /\ Len(sens.sensitivity_data) = 4
    /\ sensitivity_df = << sens.sensitivity_data >>

\* ------------------------------------------------- claims: ranking order
\* The position at which a line is first met in the sensitivity table.
FirstMet(line) ==
    CHOOSE k \in 1..Len(sensitivity_df[1]) :
        /\ sensitivity_df[1][k].Line = line
        /\ \A m \in 1..(k - 1) : sensitivity_df[1][m].Line # line

\* C23 (as claimed): the ranking is ascending in the first sample at which
\* a line reaches 100 % (never-reaching lines last), and lines of equal key
\* stand in the order in which they were first met in the sensitivity table.
C23_AscendingWithTiesInDiscoveryOrder ==
    vuln_df # <<>> =>
        \A i, j \in 1..Len(vuln_df[1]) :
            i < j =>
                LET a == vuln_df[1][i]
                    b == vuln_df[1][j]
                IN  /\ sort_key_leq(a, b)
                    /\ a.CriticalTemp = b.CriticalTemp
                           => FirstMet(a.Line) < FirstMet(b.Line)

\* ------------------------------------------------ claims: atmospheric merge
\* C24: the merge of the stored baseline with the per-call overrides has the
\* fields of both; each field of the overrides has the override's value, every
\* other field the baseline's, and the stored baseline is as it was.
C24_MergeLastWriteWins ==
    last_op.op = "merge" =>
        /\ DOMAIN last_op.full_arguments
               = DOMAIN last_op.kwargs \cup DOMAIN last_op.remainder
        /\ \A f \in DOMAIN last_op.remainder :
               last_op.full_arguments[f] = last_op.remainder[f]
        /\ \A f \in DOMAIN last_op.kwargs \ DOMAIN last_op.remainder :
               last_op.full_arguments[f] = last_op.kwargs[f]
        /\ last_op.partials = last_op.kwargs

\* C24 witness: a baseline with the caller's Direction EastWest and Ta 25
\* merged with the derived Direction NorthSouth and Ta 30.
C24_Witness ==
    /\ last_op.op = "merge"
    /\ DOMAIN last_op.kwargs = {"Ta", "WindVelocity", "SunTime", "Direction"}
    /\ last_op.kwargs.Direction = "EastWest"
    /\ last_op.kwargs.Ta = 25
    /\ DOMAIN last_op.remainder = {"Direction", "Tc", "Ta"}
    /\ last_op.remainder.Direction = "NorthSouth"
    /\ last_op.full_arguments.Direction = "NorthSouth"
    /\ last_op.full_arguments.Ta = 30
    /\ last_op.full_arguments.WindVelocity = 2

\* ------------------------------------------ claims: contingency topology
\* The last iteration outaged a line, its flow solve converged and the
\* pipeline meets no configuration or lookup error.
LineOutageSolved ==
    /\ last # <<>>
    /\ HasContingencyNetwork
    /\ last[1].candidate.component_type = "Line"
    /\ last[1].solved.converged
    /\ PipelineDefined(base_network, sweep.atmos_params, last[1].solved.p0)

\* C25 (as claimed): in the iteration of a line outage the thermal rating is
\* applied to the lines that remain and to them only: every remaining line of
\* the working copy carries the rating of the sweep's atmosphere, the outaged
\* line is as in the base network but out of service, and no row of the
\* outage names the outaged line as the affected branch.
C25_OnlyRemainingTopologyRated ==
    LineOutageSolved =>
        LET outaged == last[1].candidate.component_name
            copy_lines == objs["contingency_network"].subnet_lines
        IN  \A i \in 1..Len(copy_lines) :
                IF copy_lines[i].name = outaged
                THEN /\ copy_lines[i] = [base_network.subnet_lines[i] EXCEPT !.active = FALSE]
                     /\ \A k \in 1..Len(last[1].rows) :
                            last[1].rows[k].affected_branch # copy_lines[i].branch_name
                ELSE copy_lines[i]
                         = AdjustSNom(sweep.atmos_params, base_network.subnet_lines[i]).line

\* The at_risk flag, rated capacity and actual capacity of a line in the base
\* case under the sweep's atmosphere.
BaseCaseRating(line) ==
    LET rated == AdjustSNom(sweep.atmos_params, line).line
        stress == CalculateStress(rated, last[1].solved.p0).result
    IN  [at_risk |-> stress.at_risk,
         rated_capacity |-> stress.rated_capacity,
         actual_capacity |-> stress.actual_capacity]

\* C27 (as claimed): in every line outage whose flow solve succeeds, each
\* line that is at risk in the base case under the sweep's atmosphere has a
\* row, and the row's at_risk flag, rated capacity and actual capacity are
\* those of the base case.
C27_AtRiskLineInEverySolvedOutage ==
    LineOutageSolved =>
        \A i \in 1..Len(base_network.subnet_lines) :
            LET line == base_network.subnet_lines[i]
                base_case == BaseCaseRating(line)
            IN  base_case.at_risk =>
                    \E k \in 1..Len(last[1].rows) :
                        /\ last[1].rows[k].affected_branch = line.branch_name
                        /\ last[1].rows[k].at_risk = base_case.at_risk
                        /\ last[1].rows[k].rated_capacity = base_case.rated_capacity
                        /\ last[1].rows[k].actual_capacity = base_case.actual_capacity

\* ------------------------------------------------ claims: repeated calls
\* The capacities of the line table of a network.
LineCapacities(net) == [i \in 1..Len(net.subnet_lines) |-> net.subnet_lines[i].s_nom]

\* C26: a call of apply_atmospherics that follows a completed call with the
\* same parameters, no reset in between, leaves the load setpoints and the
\* line capacities as the first call left them.
C26_RepeatedCallDoesNotCompound ==
    [][(/\ last_op.op = "apply"
        /\ raised = None
        /\ last_op'.op = "apply"
        /\ last_op'.kwargs = last_op.kwargs)
       => (/\ base_network'.subnet_loads = base_network.subnet_loads
           /\ LineCapacities(base_network') = LineCapacities(base_network))]_vars

\* C26 witness: the second of two calls in a row with the same parameters
\* has completed, on a network with a line, at an hour at which the setpoints
\* differ from the baseline loads.
C26_Witness ==
    /\ last_op.op = "apply"
    /\ last_op.repeated
    /\ raised = None
    /\ subnet_lines # <<>>
    /\ base_network.subnet_loads # base_network.loads
    /\ base_network.subnet_loads = AdjustLoads(base_network.loads, last_op.kwargs).rows

\* --------------------------------------------- claims: sweep termination
\* C28: whatever the requested (min, max, step), a zero or negative step
\* included, the step used is at least the floor and the loop that generates
\* the samples ends by its own test, after (max - min) div step + 1 samples
\* when min <= max and with no sample when min > max; in the latter case the
\* sweep returns no data.
C28_SampleGenerationTerminates ==
    SensBegun =>
        LET min_temp == sens.temp_range[1]
            max_temp == sens.temp_range[2]
        IN  /\ sens.step >= STEP_FLOOR
            /\ sens.temp_range[3] <= 0 => sens.step = STEP_FLOOR
            /\ Len(sens.temps_list) < MaxSamples
            /\ min_temp <= max_temp
                   => Len(sens.temps_list) = (max_temp - min_temp) \div sens.step + 1
            /\ min_temp > max_temp
                   => /\ sens.temps_list = <<>>
                      /\ sens.sensitivity_data = <<>>
                      /\ sens.failed_temps = <<>>
                      /\ SensFinished => sensitivity_df = <<>>

\* C28 witness: a sweep requested with a step of zero over a range of two
\* degrees has finished with three samples and returned their records.
C28_Witness ==
    /\ SensFinished
    /\ sens.temp_range[3] = 0
    /\ sens.temp_range[2] - sens.temp_range[1] = 2 * STEP_FLOOR
    /\ Len(sens.temps_list) = 3
    /\ sens.failed_temps = <<>>
    /\ sensitivity_df # <<>>

====
